---- MODULE Spec2Model ----
(***************************************************************************)
(* Model of cuckoo/web/src/scripts/process_tree.js: the PaginationBar      *)
(* widget and the ProcessBehaviorView controller that loads behaviour      *)
(* chunks over HTTP.                                                       *)
(*                                                                         *)
(* SpecBar  - a PaginationBar on its own, built on a container with a      *)
(*            recording onPaginate callback, and clicks on its links.      *)
(* Spec     - the ProcessBehaviorView: tree clicks, filter clicks, page    *)
(*            clicks, reset clicks, and the arrival or failure of the      *)
(*            outstanding GET requests in any order. A click on an         *)
(*            ellipsis runs no handler (SpecBar) and is not a step here.   *)
(***************************************************************************)
EXTENDS Integers, Sequences, FiniteSets, TLC

\* ------------------------------------------------------------------ bounds
\* largest totalPages a stand-alone bar is constructed with
MaxPages == 40
\* number of process nodes in the tree (pids 1..MaxPid)
MaxPid == 2
\* number of GET requests issued in one behaviour
MaxRequests == 3
\* largest number of body rows the server returns in a table fragment
MaxRows == 1
\* number of branches of the tree that carry a toggle
MaxBranch == 2
\* number of clicks on one toggle in one behaviour
MaxToggles == 3

VARIABLES
  barExists,      \* a PaginationBar object has been constructed (view: this._bar)
  barCurrentPage, \* PaginationBar.config.currentPage
  barTotalPages,  \* PaginationBar.config.totalPages
  barPid,         \* the pid captured by the onPaginate closure of renderBar
  links,          \* the <a> elements in the pagination container, in order
  currentPid,     \* ProcessBehaviorView.currentPid
  currentPage,    \* ProcessBehaviorView.currentPage (a JS value)
  loader,         \* ProcessBehaviorView._loader: "null", "started" or "stopped"
  activeTags,     \* the filter tags that carry the class 'active'
  inflight,       \* GET requests issued and not yet answered or failed
  issued,         \* number of GET requests issued so far
  arrived,        \* ids of the requests whose success callback ran
  lastSuccessAt,  \* the number of requests issued when the last success callback ran
  failed,         \* ids of the requests that failed
  table,          \* the content of #behavior-table
  detail,         \* the text of the process-detail-pid placeholder
  pageInfo,       \* window.PROCESS_TREE_PAGINATION_INFO: pid -> pages, or NoEntry
  scripts,        \* the pids whose tree node holds a <script> element
  tree,           \* per branch: the classes of its nested list and of its toggle
  trace,          \* what the last handler did, in order
  lastOp          \* the last event handled

barVars  == <<barExists, barCurrentPage, barTotalPages, barPid, links>>
viewVars == <<currentPid, currentPage, loader, activeTags, inflight, issued,
              arrived, lastSuccessAt, failed, table, detail>>
\* the page around the view's handlers, which none of them changes
envVars  == <<pageInfo, scripts, tree>>
vars     == <<barVars, viewVars, envVars, trace, lastOp>>

\* ------------------------------------------------------- JavaScript values
\* JS null, as the value of a pid; process ids are 1..MaxPid
Null == 0

\* window.task_id
TaskId == 7

\* a JS number
Num(n) == [kind |-> "number", n |-> n, s |-> <<>>]
\* a JS string, as its sequence of characters
Str(s) == [kind |-> "string", n |-> 0, s |-> s]

DigitChar == <<"0", "1", "2", "3", "4", "5", "6", "7", "8", "9">>

RECURSIVE Digits(_)
\* String(n) for an integer n >= 0
Digits(n) ==
  IF n < 10 THEN <<DigitChar[n + 1]>>
  ELSE Digits(n \div 10) \o <<DigitChar[(n % 10) + 1]>>

IsDigit(c) == \E d \in 1..10 : DigitChar[d] = c
DigitValue(c) == (CHOOSE d \in 1..10 : DigitChar[d] = c) - 1

\* the value parseInt returns when the text starts with no digit
NaN == -1

RECURSIVE ParseDigits(_, _)
ParseDigits(s, acc) ==
  IF s = <<>> \/ ~IsDigit(Head(s)) THEN acc
  ELSE ParseDigits(Tail(s), acc * 10 + DigitValue(Head(s)))

\* parseInt(s): the number the leading decimal digits of s spell
ParseInt(s) ==
  IF s = <<>> \/ ~IsDigit(Head(s)) THEN NaN ELSE ParseDigits(s, 0)

\* `${v}`: the text of a JS value in a template literal or in $link.text(v)
ToText(v) == IF v.kind = "number" THEN Digits(v.n) ELSE v.s

\* isNaN(v)
IsNaN(v) == IF v.kind = "number" THEN FALSE ELSE ParseInt(v.s) = NaN

\* v == n for a JS value v and a number n
LooseEq(v, n) == IF v.kind = "number" THEN v.n = n ELSE ParseInt(v.s) = n

\* the '...' label
Dots == Str(<<".", ".", ".">>)

\* an element without the attribute
NoAttr == <<>>

\* the content of #behavior-table before the first response
NoTable ==
  [shown |-> FALSE,
   req |-> [id |-> 0, pid |-> 0, filter |-> [kind |-> "undefined", n |-> 0, s |-> <<>>], url |-> <<>>],
   rows |-> 0, noResult |-> FALSE]

\* --------------------------------------------------------- PaginationBar
\* _page(n): the link of one page item
PageItem(n, cp) ==
  [ text   |-> ToText(n),
    active |-> LooseEq(n, cp),
    href   |-> IF ~IsNaN(n) THEN <<"page:">> \o ToText(n) ELSE NoAttr ]

\* mutant: '...' as soon as more than 10 pages precede the current page
LeadingEllipsisEarly(cp) == cp - 1 > 10

\* mutant: '...' one page late
LeadingEllipsisLate(cp) == cp - 10 > 3

\* the test that puts '...' after page 1
LeadingEllipsis(cp) == cp - 10 > 2

Max(a, b) == IF a > b THEN a ELSE b
Min(a, b) == IF a < b THEN a ELSE b

\* mutant: the window starts at page 1, which is already there
PageMinFromOne(cp) == Max(1, cp - 10)

PageMin(cp) == Max(2, cp - 10)

\* mutant: the window is not clipped to the last page
PageMaxNoClip(cp, tp) == cp + 10

PageMax(cp, tp) == Min(tp, cp + 10)

\* mutant: '...' and the last page also when the window ends at the last page
TrailingEllipsisInclusive(cp, tp) == cp + 10 <= tp

\* the test that appends '...' and the last page
TrailingEllipsis(cp, tp) == cp + 10 < tp

\* the for loop: the items of pages lo..hi
Window(lo, hi, cp) ==
  IF hi < lo THEN <<>>
  ELSE [k \in 1..(hi - lo + 1) |-> PageItem(Num(lo + k - 1), cp)]

\* render(): the list of links put in the container
Render(cp, tp) ==
  <<PageItem(Num(1), cp)>>
  \o (IF LeadingEllipsis(cp) THEN <<PageItem(Dots, cp)>> ELSE <<>>)
  \o Window(PageMin(cp), PageMax(cp, tp), cp)
  \o (IF TrailingEllipsis(cp, tp)
      THEN <<PageItem(Dots, cp), PageItem(Num(tp), cp)>>
      ELSE <<>>)

\* the handler bind() attaches reads the page from the href
HrefPage(l) == SubSeq(l.href, 2, Len(l.href))

\* bind(): the links that get a click handler, a[href]
Bound(l) == l.href # NoAttr

\* an entry of the trace
Event(name, arg) == [ev |-> name, arg |-> arg]

\* mutant: goto sets the page and does not render
GotoNoRender(n) ==
  /\ barCurrentPage' = ParseInt(n)
  /\ UNCHANGED <<barExists, barTotalPages, barPid, links>>

\* goto(n), up to the callback: sets currentPage and renders
Goto(n) ==
  /\ barCurrentPage' = ParseInt(n)
  /\ links' = Render(ParseInt(n), barTotalPages)
  /\ UNCHANGED <<barExists, barTotalPages, barPid>>

\* ------------------------------------------------------------------ Tree
\* the list items that hold a toggle and one directly nested list
Branches == 1..MaxBranch

\* a branch whose nested list has the class 'open' or not and whose toggle
\* has the class 'is-open' or not; orig and count remember the list's class
\* before the first click and the number of clicks
Branch(open, mark) ==
  [open |-> open, mark |-> mark, orig |-> open, count |-> 0]

\* targetList.toggleClass('open')
ToggledList(open) == ~open

\* mutant: the toggle's class is flipped, whatever the list's class is
ToggleMarkFlip(listOpen, mark) == ~mark

\* $toggle.toggleClass('is-open', targetList.hasClass('open'))
ToggleMark(listOpen, mark) == listOpen

\* toggleBranch($toggle) on the toggle of branch b
ToggleBranch(b) ==
  tree' = [tree EXCEPT ![b] =
             [ open  |-> ToggledList(@.open),
               mark  |-> ToggleMark(ToggledList(@.open), @.mark),
               orig  |-> @.orig,
               count |-> @.count + 1 ]]

\* the tree as the page delivers it to the view: every branch collapsed
ClosedTree == [b \in Branches |-> Branch(FALSE, FALSE)]

\* ------------------------------------------------ SpecBar: the bar alone

ViewIdle ==
  /\ currentPid = Null
  /\ currentPage = Num(1)
  /\ loader = "stopped"
  /\ activeTags = {}
  /\ inflight = {}
  /\ issued = 0
  /\ arrived = {}
  /\ lastSuccessAt = 0
  /\ failed = {}
  /\ table = NoTable
  /\ detail = <<>>

\* new PaginationBar({container, totalPages: tp, currentPage: cp, onPaginate})
BarInit ==
  /\ \E tp \in 1..MaxPages : \E cp \in 1..tp :
       /\ barTotalPages = tp
       /\ barCurrentPage = cp
       /\ links = Render(cp, tp)
  /\ barExists = TRUE
  /\ barPid = Null
  /\ ViewIdle
  /\ pageInfo = <<>>
  /\ scripts = {}
  /\ tree = <<>>
  /\ trace = <<>>
  /\ lastOp = "construct"

\* a click on the i-th link, which has a handler
BarClickPage(i) ==
  /\ Bound(links[i])
  /\ Goto(HrefPage(links[i]))
  /\ trace' = << Event("click", links[i].text),
                 Event("render", Digits(ParseInt(HrefPage(links[i])))),
                 Event("onPaginate", HrefPage(links[i])) >>
  /\ lastOp' = "page"
  /\ UNCHANGED <<viewVars, envVars>>

\* a click on the i-th link, which has no handler
BarClickEllipsis(i) ==
  /\ ~Bound(links[i])
  /\ trace' = << Event("click", links[i].text) >>
  /\ lastOp' = "ellipsis"
  /\ UNCHANGED <<barVars, viewVars, envVars>>

BarNext ==
  \/ \E i \in 1..Len(links) : BarClickPage(i)
  \/ \E i \in 1..Len(links) : BarClickEllipsis(i)

SpecBar == BarInit /\ [][BarNext]_vars

\* ------------------------------------------- Spec: ProcessBehaviorView
\* the tree nodes carry data-load = 1..MaxPid
Pids == 1..MaxPid

\* window.PROCESS_TREE_PAGINATION_INFO as the page sets it: an entry per pid
PaginationInfo == [p \in Pids |-> p + 1]

\* the value of a lookup that finds no entry
NoEntry == 0

\* $(this).find('script') is a non-empty selection for the node of pid p
HasScript(p) == p \in scripts

\* window.PROCESS_TREE_PAGINATION_INFO[pid] is defined
HasInfo(p) == pageInfo[p] # NoEntry

\* the default totalPages of the PaginationBar config
DefaultTotalPages == 40

\* the filter tags: the text after 'filter:' in each tag's href
Filters == { <<>>, <<"file">> }

\* the value of a parameter that is not passed
Undefined == [kind |-> "undefined", n |-> 0, s |-> <<>>]

\* !v
Falsy(v) ==
  \/ v.kind = "undefined"
  \/ v.kind = "string" /\ v.s = <<>>
  \/ v.kind = "number" /\ v.n = 0

\* `${pid}` for a pid or null
PidText(pid) == IF pid = Null THEN <<"null">> ELSE Digits(pid)

\* mutant: the filter is ignored
UrlIgnoresFilter(pid, filter, page) ==
  <<"/analysis/chunk/">> \o Digits(TaskId) \o <<"/">> \o PidText(pid)
    \o <<"/">> \o ToText(page)

\* the url loadChunk builds
Url(pid, filter, page) ==
  IF Falsy(filter)
  THEN <<"/analysis/chunk/">> \o Digits(TaskId) \o <<"/">> \o PidText(pid)
         \o <<"/">> \o ToText(page)
  ELSE <<"/analysis/filtered/">> \o Digits(TaskId) \o <<"/">> \o PidText(pid)
         \o <<"/">> \o ToText(filter)

\* the request $.get sends; pid and filter are kept beside the url
Request(pid, filter, page) ==
  [id |-> issued + 1, pid |-> pid, filter |-> filter,
   url |-> Url(pid, filter, page)]

\* Loader.start() and Loader.stop(): show and hide the indicator
LoaderStart == "started"
LoaderStop  == "stopped"

\* mutant: a new request aborts the outstanding ones
NextInflightAbort(req) == {req}

\* $.get adds a request and leaves the outstanding ones alone
NextInflight(req) == inflight \cup {req}

\* the text of a loadChunk call, for the trace
CallText(pid, filter) ==
  PidText(pid) \o <<",">> \o
    (IF filter.kind = "undefined" THEN <<"undefined">> ELSE ToText(filter))

\* what loadChunk(pid, filter) leaves in the trace; this._loader.start()
\* throws a TypeError when this._loader is null
LoadChunkTrace(pid, filter, page) ==
  << Event("loadChunk", CallText(pid, filter)) >>
  \o (IF loader = "null" THEN << Event("TypeError", <<>>) >>
      ELSE << Event("GET", Url(pid, filter, page)) >>)

\* loadChunk(pid, filter), with this.currentPage = page at the call
LoadChunk(pid, filter, page) ==
  /\ currentPid' = pid
  /\ IF loader = "null"
     THEN UNCHANGED <<loader, inflight, issued>>
     ELSE /\ loader' = LoaderStart
          /\ inflight' = NextInflight(Request(pid, filter, page))
          /\ issued' = issued + 1

\* the totalPages of the config after $.extend, which skips undefined values
TotalPagesFor(pid) ==
  IF HasInfo(pid) THEN pageInfo[pid] ELSE DefaultTotalPages

\* mutant: the old bar is not destroyed, the new links are added to its links
RenderBarAppends(pid) ==
  /\ currentPage' = Num(1)
  /\ barExists' = TRUE
  /\ barPid' = pid
  /\ barTotalPages' = TotalPagesFor(pid)
  /\ barCurrentPage' = 1
  /\ links' = links \o Render(1, TotalPagesFor(pid))

\* renderBar(pid, 1): a new bar on the emptied container
RenderBar(pid) ==
  /\ currentPage' = Num(1)
  /\ barExists' = TRUE
  /\ barPid' = pid
  /\ barTotalPages' = TotalPagesFor(pid)
  /\ barCurrentPage' = 1
  /\ links' = Render(1, TotalPagesFor(pid))

\* new ProcessBehaviorView(el) on a page with a .loading element
Init ==
  /\ barExists = FALSE
  /\ barCurrentPage = 0
  /\ barTotalPages = 0
  /\ barPid = Null
  /\ links = <<>>
  /\ ViewIdle
  /\ pageInfo = PaginationInfo
  /\ scripts = Pids
  /\ tree = ClosedTree
  /\ trace = <<>>
  /\ lastOp = "construct"

\* the click handler of the tree node with data-load = p
TreeClick(p) ==
  /\ issued < MaxRequests
  /\ lastOp' = "tree"
  /\ UNCHANGED envVars
  /\ LoadChunk(p, Undefined, currentPage)
  /\ UNCHANGED <<arrived, lastSuccessAt, failed, table>>
  /\ IF loader = "null"
     THEN /\ trace' = << Event("click", <<"tree">> \o Digits(p)) >>
                      \o LoadChunkTrace(p, Undefined, currentPage)
          /\ UNCHANGED <<barVars, currentPage, activeTags, detail>>
     ELSE IF ~HasScript(p)
     THEN \* JSON.parse('') throws a SyntaxError in populate
          /\ trace' = << Event("click", <<"tree">> \o Digits(p)) >>
                      \o LoadChunkTrace(p, Undefined, currentPage)
                      \o << Event("SyntaxError", <<>>) >>
          /\ UNCHANGED <<barVars, currentPage, activeTags, detail>>
     ELSE /\ detail' = Digits(p)
          /\ RenderBar(p)
          /\ activeTags' = {}
          /\ trace' = << Event("click", <<"tree">> \o Digits(p)) >>
                      \o LoadChunkTrace(p, Undefined, currentPage)
                      \o << Event("renderBar", Digits(p)) >>

\* the click handler of the tag with href 'filter:' + f
FilterClick(f) ==
  /\ issued < MaxRequests
  /\ lastOp' = "filter"
  /\ UNCHANGED envVars
  /\ links' = IF barExists THEN <<>> ELSE links
  /\ UNCHANGED <<barExists, barCurrentPage, barTotalPages, barPid>>
  /\ LoadChunk(currentPid, Str(f), currentPage)
  /\ trace' = << Event("click", <<"filter:">> \o f) >>
              \o LoadChunkTrace(currentPid, Str(f), currentPage)
  /\ activeTags' = IF loader = "null" THEN activeTags ELSE {f}
  /\ UNCHANGED <<currentPage, arrived, lastSuccessAt, failed, table, detail>>

\* a click on the i-th link of the view's bar: goto, then onPaginate
PageClick(i) ==
  /\ issued < MaxRequests
  /\ i \in 1..Len(links)
  /\ Bound(links[i])
  /\ lastOp' = "page"
  /\ UNCHANGED envVars
  /\ Goto(HrefPage(links[i]))
  /\ currentPage' = Str(HrefPage(links[i]))
  /\ LoadChunk(barPid, Undefined, Str(HrefPage(links[i])))
  /\ trace' = << Event("click", links[i].text),
                 Event("render", Digits(ParseInt(HrefPage(links[i])))),
                 Event("onPaginate", HrefPage(links[i])) >>
              \o LoadChunkTrace(barPid, Undefined, Str(HrefPage(links[i])))
  /\ UNCHANGED <<activeTags, arrived, lastSuccessAt, failed, table, detail>>

\* renderTable(res) of a fragment with the given number of body rows
RenderTable(r, rows) ==
  table' = [shown |-> TRUE, req |-> r, rows |-> rows, noResult |-> rows = 0]

\* the success callback of request r runs
Respond(r, rows) ==
  /\ r \in inflight
  /\ lastOp' = "respond"
  /\ UNCHANGED envVars
  /\ inflight' = inflight \ {r}
  /\ arrived' = arrived \cup {r.id}
  /\ lastSuccessAt' = issued
  /\ loader' = LoaderStop
  /\ RenderTable(r, rows)
  /\ trace' = << Event("success", r.url) >>
  /\ UNCHANGED <<barVars, currentPid, currentPage, activeTags, issued, failed,
                 detail>>

\* mutant: an error callback that stops the indicator
FailStopsLoader(r) ==
  /\ r \in inflight
  /\ lastOp' = "fail"
  /\ UNCHANGED envVars
  /\ inflight' = inflight \ {r}
  /\ failed' = failed \cup {r.id}
  /\ loader' = "stopped"
  /\ trace' = << Event("error", r.url) >>
  /\ UNCHANGED <<barVars, currentPid, currentPage, activeTags, issued,
                 arrived, lastSuccessAt, table, detail>>

\* request r fails: $.get was given no error callback
Fail(r) ==
  /\ r \in inflight
  /\ lastOp' = "fail"
  /\ UNCHANGED envVars
  /\ inflight' = inflight \ {r}
  /\ failed' = failed \cup {r.id}
  /\ trace' = << Event("error", r.url) >>
  /\ UNCHANGED <<barVars, currentPid, currentPage, activeTags, issued,
                 arrived, lastSuccessAt, loader, table, detail>>

\* a click on the 'Reset filter' button of the 'No results' row
ResetClick ==
  /\ table.shown /\ table.noResult
  /\ issued < MaxRequests
  /\ lastOp' = "reset"
  /\ UNCHANGED envVars
  /\ UNCHANGED <<barVars, currentPage, arrived, lastSuccessAt, failed, table,
                 detail>>
  /\ IF currentPid # Null
     THEN /\ activeTags' = IF loader = "null" THEN activeTags ELSE {}
          /\ LoadChunk(currentPid, Undefined, currentPage)
          /\ trace' = << Event("click", <<"reset">>) >>
                      \o LoadChunkTrace(currentPid, Undefined, currentPage)
     ELSE /\ trace' = << Event("click", <<"reset">>) >>
          /\ UNCHANGED <<currentPid, activeTags, loader, inflight, issued>>

Next ==
  \/ \E p \in Pids : TreeClick(p)
  \/ \E f \in Filters : FilterClick(f)
  \/ \E i \in 1..Len(links) : PageClick(i)
  \/ \E r \in inflight : \E rows \in 0..MaxRows : Respond(r, rows)
  \/ \E r \in inflight : Fail(r)
  \/ ResetClick

Spec == Init /\ [][Next]_vars

\* ------------------------------ SpecPartialPage: a page that lacks a part
\* what a page may lack: the <script> of one node, the pagination entry of
\* one pid, or the .loading element
Lacks == {"script", "entry", "loading"}

\* new ProcessBehaviorView(el) on a page that lacks one of these
PartialPageInit ==
  /\ barExists = FALSE
  /\ barCurrentPage = 0
  /\ barTotalPages = 0
  /\ barPid = Null
  /\ links = <<>>
  /\ currentPid = Null
  /\ currentPage = Num(1)
  /\ activeTags = {}
  /\ inflight = {}
  /\ issued = 0
  /\ arrived = {}
  /\ lastSuccessAt = 0
  /\ failed = {}
  /\ table = NoTable
  /\ detail = <<>>
  /\ tree = ClosedTree
  /\ trace = <<>>
  /\ lastOp = "construct"
  /\ \E p \in Pids : \E lacks \in Lacks :
       /\ loader = IF lacks = "loading" THEN "null" ELSE "stopped"
       /\ scripts = IF lacks = "script" THEN Pids \ {p} ELSE Pids
       /\ pageInfo = IF lacks = "entry"
                     THEN [PaginationInfo EXCEPT ![p] = NoEntry]
                     ELSE PaginationInfo

SpecPartialPage == PartialPageInit /\ [][Next]_vars

\* --------------------------------------------------- SpecTree: the Tree
\* new Tree(el, 0) on markup whose branches start open or closed, with
\* toggles marked or not
TreeInit ==
  /\ tree \in [Branches -> {Branch(o, m) : o \in BOOLEAN, m \in BOOLEAN}]
  /\ barExists = FALSE
  /\ barCurrentPage = 0
  /\ barTotalPages = 0
  /\ barPid = Null
  /\ links = <<>>
  /\ ViewIdle
  /\ pageInfo = PaginationInfo
  /\ scripts = Pids
  /\ trace = <<>>
  /\ lastOp = "construct"

\* the click handler setup() binds to the toggle of branch b
ToggleClick(b) ==
  /\ tree[b].count < MaxToggles
  /\ ToggleBranch(b)
  /\ trace' = << Event("click", <<"toggle">> \o Digits(b)) >>
  /\ lastOp' = "toggle"
  /\ UNCHANGED <<barVars, viewVars, pageInfo, scripts>>

TreeNext == \E b \in Branches : ToggleClick(b)

SpecTree == TreeInit /\ [][TreeNext]_vars

\* ------------------------------------------------ reading the rendered bar
IsEllipsis(l) == l.text = <<".", ".", ".">>
IsNumeric(l)  == ~IsEllipsis(l)
PageOf(l)     == ParseInt(l.text)
Texts         == [i \in 1..Len(links) |-> links[i].text]
HasLeadingEllipsis == Len(links) >= 2 /\ IsEllipsis(links[2])
\* the texts of pages lo..hi
Pages(lo, hi) ==
  IF hi < lo THEN <<>> ELSE [k \in 1..(hi - lo + 1) |-> Digits(lo + k - 1)]

\* ------------------------------------------------------------------ claims
\* C1: for every totalPages >= 1 and 1 <= currentPage <= totalPages the
\* rendered list has a link for page 1 and a link for totalPages, exactly one
\* active link, which is the one labelled currentPage, and at most two
\* ellipsis entries.
C1_RenderShape ==
  /\ barTotalPages >= 1 /\ barCurrentPage \in 1..barTotalPages
  /\ \E i \in 1..Len(links) : links[i].text = Digits(1)
  /\ \E i \in 1..Len(links) : links[i].text = Digits(barTotalPages)
  /\ Cardinality({i \in 1..Len(links) : links[i].active}) = 1
  /\ \A i \in 1..Len(links) :
       links[i].active => links[i].text = Digits(barCurrentPage)
  /\ Cardinality({i \in 1..Len(links) : IsEllipsis(links[i])}) <= 2

\* a bar in the middle of a long range, after a click: both ellipses shown
C1_Witness ==
  /\ lastOp = "page"
  /\ barTotalPages = 40 /\ barCurrentPage = 20
  /\ Cardinality({i \in 1..Len(links) : IsEllipsis(links[i])}) = 2

\* C2: after page 1 and the optional leading ellipsis the numeric links are
\* exactly max(2, currentPage-10) .. min(totalPages, currentPage+10),
\* ascending; '...' and then totalPages follow exactly when
\* currentPage+10 < totalPages. 40/1 gives 1, 2..11, ..., 40 and 5/3 gives
\* 1,2,3,4,5.
C2_Window ==
  LET cp == barCurrentPage
      tp == barTotalPages
      k  == IF HasLeadingEllipsis THEN 2 ELSE 1
      lo == IF cp - 10 > 2 THEN cp - 10 ELSE 2
      hi == IF cp + 10 < tp THEN cp + 10 ELSE tp
      n  == IF hi < lo THEN 0 ELSE hi - lo + 1
  IN  /\ Len(links) >= k + n
      /\ links[1].text = Digits(1)
      /\ SubSeq(Texts, k + 1, k + n) = Pages(lo, hi)
      /\ IF cp + 10 < tp
         THEN /\ Len(links) = k + n + 2
              /\ IsEllipsis(links[k + n + 1])
              /\ links[k + n + 2].text = Digits(tp)
         ELSE Len(links) = k + n
      /\ (tp = 40 /\ cp = 1) =>
           Texts = Pages(1, 11) \o << <<".", ".", ".">>, Digits(40) >>
      /\ (tp = 5 /\ cp = 3) => Texts = Pages(1, 5)

\* the first example of the claim, reached by clicking page 1
C2_Witness ==
  /\ lastOp = "page"
  /\ barTotalPages = 40 /\ barCurrentPage = 1
  /\ Len(links) = 13

\* C3 as stated: the leading ellipsis is there exactly when
\* currentPage - 1 > 10.
C3_Original == HasLeadingEllipsis <=> (barCurrentPage - 1 > 10)

\* C3 as amended: the leading ellipsis is there exactly when
\* currentPage - 10 > 2, that is when the window starts after page 2.
C3_LeadingEllipsis == HasLeadingEllipsis <=> (barCurrentPage - 10 > 2)

\* page 12 of a long bar: eleven pages precede it and no ellipsis is shown
C3_Witness ==
  /\ lastOp = "page"
  /\ barCurrentPage = 12
  /\ ~HasLeadingEllipsis
  /\ links[2].text = Digits(2)

\* C4: in every state reached by building a bar and clicking its links the
\* numeric links are strictly increasing, two neighbours with no ellipsis
\* between them differ by exactly 1, and the link of currentPage is active.
C4_Contiguous ==
  /\ \A i, j \in 1..Len(links) :
       (i < j /\ IsNumeric(links[i]) /\ IsNumeric(links[j]))
         => PageOf(links[i]) < PageOf(links[j])
  /\ \A i \in 1..(Len(links) - 1) :
       (IsNumeric(links[i]) /\ IsNumeric(links[i + 1]))
         => PageOf(links[i + 1]) = PageOf(links[i]) + 1
  /\ \A i \in 1..Len(links) :
       (IsNumeric(links[i]) /\ PageOf(links[i]) = barCurrentPage)
         => links[i].active

\* page 13 after a click: page 1, an ellipsis, then the window from 3
C4_Witness ==
  /\ lastOp = "page"
  /\ barCurrentPage = 13
  /\ HasLeadingEllipsis
  /\ links[3].text = Digits(3)
  /\ links[13].active

\* C5: a click on the numeric link n sets currentPage to n, renders the bar
\* with n active and then calls onPaginate once, with page n, in that order;
\* an ellipsis has no href and no handler, and a click on it changes nothing.
C5_Click ==
  [][ /\ \A l \in {links[i] : i \in 1..Len(links)} :
           IsEllipsis(l) <=> l.href = NoAttr
      /\ \A l \in {links[i] : i \in 1..Len(links)} :
           (Len(trace') > 0 /\ trace'[1] = Event("click", l.text)) =>
             IF IsNumeric(l)
             THEN /\ barCurrentPage' = PageOf(l)
                  /\ \E j \in 1..Len(links') :
                       links'[j].active /\ links'[j].text = l.text
                  /\ trace' = << Event("click", l.text),
                                 Event("render", l.text),
                                 Event("onPaginate", l.text) >>
             ELSE /\ UNCHANGED barVars
                  /\ trace' = << Event("click", l.text) >>
    ]_vars

\* a click on page 7 changed the page and called back after rendering
C5_Witness ==
  /\ barCurrentPage = 7
  /\ trace = << Event("click", Digits(7)), Event("render", Digits(7)),
                Event("onPaginate", Digits(7)) >>
  /\ \E j \in 1..Len(links) : links[j].active /\ links[j].text = Digits(7)

\* ------------------------------------------------- reading a handler's step
\* the loadChunk(p, f) call the step's handler made
Called(p, f) ==
  \E k \in 1..Len(trace') : trace'[k] = Event("loadChunk", CallText(p, f))

\* the GETs the step's handler issued
Gets == SelectSeq(trace', LAMBDA e : e.ev = "GET")

\* this.currentPage when the handler called loadChunk: onPaginate sets it
\* first, the other handlers call loadChunk before anything changes it
PageAtCall == IF lastOp' = "page" THEN currentPage' ELSE currentPage

ChunkUrlOf(p, page) ==
  << "/analysis/chunk/", "7", "/" >> \o PidText(p) \o << "/" >> \o ToText(page)

FilteredUrlOf(p, f) ==
  << "/analysis/filtered/", "7", "/" >> \o PidText(p) \o << "/" >> \o f

\* the step issued exactly one GET, for this url
OneGet(url) ==
  /\ Len(Gets) = 1
  /\ Gets[1].arg = url
  /\ issued' = issued + 1
  /\ \E r \in inflight' :
       /\ r \notin inflight
       /\ inflight' = inflight \cup {r}
       /\ r.url = url

CallArgs == {Undefined} \cup {Str(f) : f \in Filters}

\* C6 as stated: loadChunk(pid) records pid and requests the chunk url of
\* currentPage; loadChunk(pid, f) with any supplied f records pid and requests
\* the filtered url of f; each call issues exactly one GET.
C6_Original ==
  [][ \A p \in Pids \cup {Null} : \A f \in CallArgs :
        Called(p, f) =>
          /\ currentPid' = p
          /\ OneGet(IF f = Undefined THEN ChunkUrlOf(p, PageAtCall)
                    ELSE FilteredUrlOf(p, f.s))
    ]_vars

\* C6 as amended: the filtered url is requested for a non-empty f; an empty
\* f is treated as no filter and the chunk url of currentPage is requested.
C6_LoadChunkUrl ==
  [][ \A p \in Pids \cup {Null} : \A f \in CallArgs :
        Called(p, f) =>
          /\ currentPid' = p
          /\ OneGet(IF f = Undefined \/ f.s = <<>>
                    THEN ChunkUrlOf(p, PageAtCall)
                    ELSE FilteredUrlOf(p, f.s))
    ]_vars

\* a click on the tag 'filter:file' with process 1 selected
C6_Witness ==
  /\ lastOp = "filter"
  /\ currentPid = 1
  /\ \E r \in inflight :
       r.url = << "/analysis/filtered/", "7", "/", "1", "/", "file" >>

\* C7: with no request failing, the loading indicator is started exactly
\* when at least one chunk request is in flight.
C7_LoaderMatchesInflight ==
  failed = {} => ((loader = "started") <=> (inflight # {}))

\* C8: a loadChunk issued while requests are outstanding cancels none of
\* them; every success callback repaints the table with its own response, so
\* the table shown is the response that arrived last, whichever request was
\* issued last.
C8_LastArrivalWins ==
  [][ /\ issued' > issued => inflight \subseteq inflight'
      /\ \A r \in inflight :
           r \notin inflight' =>
             \/ r.id \in failed'
             \/ /\ r.id \in arrived'
                /\ table'.shown
                /\ table'.req = r
    ]_vars

\* two overlapping requests answered in the reverse order: the table shown is
\* the first request's, for a pid that is no longer the current one
C8_Witness ==
  /\ issued = 2
  /\ arrived = {1, 2}
  /\ table.req.id = 1
  /\ table.req.pid # currentPid

\* C9: only a success callback stops the indicator or renders a table; a
\* failure changes neither and issues no new request; while no success
\* callback has run since a request was issued and that request failed or is
\* unanswered, the indicator stays started and the table is not that
\* request's.
C9_OnlySuccessStops ==
  /\ [][ /\ (loader = "started" /\ loader' # "started") => arrived' # arrived
         /\ table' # table => arrived' # arrived
         /\ failed' # failed =>
              /\ issued' = issued
              /\ loader' = loader
              /\ table' = table
              /\ inflight' \subseteq inflight
       ]_vars
  /\ [](\A id \in failed \cup {r.id : r \in inflight} :
          lastSuccessAt < id =>
            /\ loader = "started"
            /\ table.shown => table.req.id # id)

\* the only request failed: the indicator is still started, nothing is shown
C9_Witness ==
  /\ lastOp = "fail"
  /\ issued = 1
  /\ failed = {1}
  /\ inflight = {}
  /\ loader = "started"
  /\ ~table.shown

\* C10: renderTable adds the 'No results' row exactly for a fragment with
\* zero rows; a click on its reset button clears the active tag and issues
\* exactly one unfiltered loadChunk for currentPid.
C10_EmptyResult ==
  [][ /\ lastOp' = "respond" => (table'.noResult <=> table'.rows = 0)
      /\ lastOp' = "reset" =>
           /\ activeTags' = {}
           /\ OneGet(ChunkUrlOf(currentPid, currentPage))
           /\ currentPid' = currentPid
    ]_vars

\* C11: toggleBranch applied twice to a toggle returns its nested list to
\* the class it had, one application flips it, and after every application
\* the toggle carries is-open exactly when the list is open.
C11_ToggleTwice ==
  \A b \in Branches :
    /\ tree[b].count % 2 = 0 => tree[b].open = tree[b].orig
    /\ tree[b].count % 2 = 1 => tree[b].open = ~tree[b].orig
    /\ tree[b].count > 0 => (tree[b].mark <=> tree[b].open)

\* a branch that started open, clicked twice: open again, toggle marked
C11_Witness ==
  /\ lastOp = "toggle"
  /\ tree[1].count = 2
  /\ tree[1].orig /\ tree[1].open /\ tree[1].mark

\* the step is the click on the tree node of pid p
TreeClicked(p) ==
  Len(trace') > 0 /\ trace'[1] = Event("click", <<"tree">> \o Digits(p))

\* the step's handler ended in an exception
Threw ==
  \E k \in 1..Len(trace') : trace'[k].ev \in {"TypeError", "SyntaxError"}

\* C12: a click on a tree node that holds no script element raises no error
\* in populate, which works from an empty record and still requests the
\* pagination bar for page 1.
C12_AbsentScript ==
  [][ \A p \in Pids :
        (TreeClicked(p) /\ p \notin scripts /\ loader # "null") =>
          /\ ~Threw
          /\ \E k \in 1..Len(trace') : trace'[k].ev = "renderBar"
          /\ barExists'
          /\ currentPage' = Num(1)
    ]_vars

\* C14: page links are rendered only for a pid that has an entry in
\* PROCESS_TREE_PAGINATION_INFO.
C14_BarOnlyWithInfo ==
  links # <<>> => (barPid \in Pids /\ pageInfo[barPid] # NoEntry)

\* C18: on a page without a loading element every loadChunk call records the
\* pid and issues its GET without raising an error.
C18_LoaderOptional ==
  [][ loader = "null" =>
        \A p \in Pids \cup {Null} : \A f \in CallArgs :
          Called(p, f) =>
            /\ ~Threw
            /\ currentPid' = p
            /\ OneGet(IF f = Undefined \/ f.s = <<>>
                      THEN ChunkUrlOf(p, PageAtCall)
                      ELSE FilteredUrlOf(p, f.s))
    ]_vars

\* the step's handler called renderBar
RenderedBar == \E k \in 1..Len(trace') : trace'[k].ev = "renderBar"

\* the texts of a fresh bar of tp pages: 1..tp, or 1..11, '...', tp
FreshBarTexts(tp) ==
  IF tp <= 11 THEN Pages(1, tp)
  ELSE Pages(1, 11) \o << <<".", ".", ".">>, Digits(tp) >>

\* C13: after renderBar(pid, 1) the container holds only the links of the
\* new bar, whose totalPages is PROCESS_TREE_PAGINATION_INFO[pid]; a click
\* on page n of that bar sets the view's currentPage to n and issues exactly
\* one unfiltered chunk request for that pid and page n.
C13_RenderBar ==
  [][ /\ \A p \in Pids :
           (TreeClicked(p) /\ RenderedBar) =>
             /\ barTotalPages' = PaginationInfo[p]
             /\ barPid' = p
             /\ [i \in 1..Len(links') |-> links'[i].text]
                  = FreshBarTexts(PaginationInfo[p])
             /\ \A i \in 1..Len(links') : links'[i].active <=> i = 1
      /\ \A i \in 1..Len(links) :
           (lastOp' = "page" /\ trace'[1] = Event("click", links[i].text)) =>
             /\ ToText(currentPage') = links[i].text
             /\ currentPid' = barPid
             /\ barPid' = barPid
             /\ OneGet(ChunkUrlOf(barPid, Str(links[i].text)))
    ]_vars

\* page 3 of the bar of process 2 was clicked after the bar of process 1
\* had been replaced
C13_Witness ==
  /\ lastOp = "page"
  /\ issued = 3
  /\ barPid = 2 /\ barTotalPages = 3
  /\ currentPage = Str(<<"3">>)
  /\ \E r \in inflight :
       r.id = 3 /\ r.url = << "/analysis/chunk/", "7", "/", "2", "/", "3" >>
  /\ \E r \in inflight \cup {table.req} : r.id = 1 /\ r.pid = 1

\* the table shown is the response of a filtered request for a process
FilteredShown ==
  /\ table.shown
  /\ table.req.pid \in Pids
  /\ table.req.url # <<>>
  /\ table.req.url[1] = "/analysis/filtered/"

\* C15: a click on a filter tag empties the pagination bar, and whenever the
\* table shown is a filtered result the pagination container holds no links.
C15_FilteredNoPagination ==
  /\ [][lastOp' = "filter" => links' = <<>>]_vars
  /\ [](FilteredShown => links = <<>>)

\* C16: the chunk request a tree-node click issues is for page 1 of the
\* clicked process, the page the rebuilt bar marks active.
C16_TreeClickLoadsPageOne ==
  [][ \A p \in Pids :
        (TreeClicked(p) /\ RenderedBar) =>
          /\ \E i \in 1..Len(links') :
               links'[i].active /\ links'[i].text = Digits(1)
          /\ OneGet(ChunkUrlOf(p, Num(1)))
    ]_vars

\* C17: a click on 'Reset filter' while a filter tag is active requests the
\* unfiltered chunk and leaves a rendered pagination bar whose active page
\* is the page of that request.
C17_ResetRestoresBar ==
  [][ (lastOp' = "reset" /\ activeTags # {} /\ issued' > issued) =>
        /\ OneGet(ChunkUrlOf(currentPid, currentPage))
        /\ \E i \in 1..Len(links') :
             links'[i].active /\ links'[i].text = ToText(currentPage)
    ]_vars

\* C19: no GET is issued for a null process id.
C19_NoNullPid == \A r \in inflight : r.pid # Null /\ r.pid \in Pids

\* C20: after any clicks on rendered links currentPage is in 1..totalPages
\* and every numeric link is a page in 1..totalPages, with an href for that
\* page.
C20_InRange ==
  /\ barCurrentPage \in 1..barTotalPages
  /\ \A i \in 1..Len(links) :
       IsNumeric(links[i]) =>
         /\ PageOf(links[i]) \in 1..barTotalPages
         /\ links[i].href = <<"page:">> \o links[i].text

\* the last page of a 40-page bar was clicked
C20_Witness ==
  /\ lastOp = "page"
  /\ barTotalPages = 40
  /\ barCurrentPage = 40
  /\ links[Len(links)].text = Digits(40)

====
